---- MODULE Spec2Model ----
(***************************************************************************)
(* Sales-Analytics: the data-cleaning pipeline (src/src/data_cleaner.py)   *)
(* and the forecasting engine (src/src/forecasting.py) as state machines.  *)
(*                                                                         *)
(* A table is a sequence of rows; a row is a record of cells.  A cell is a *)
(* tagged tuple, so that Python's dynamic typing is kept:                  *)
(*   <<"na">>            NaN / None / NaT                                  *)
(*   <<"num", n>>        a Python number (integers; arithmetic is exact)   *)
(*   <<"txt", chars>>    a Python str, chars a sequence of 1-char strings  *)
(*   <<"dstr", d>>       a str holding a parseable date, d = 100*month+day *)
(*   <<"ts", d>>         a pandas Timestamp                                *)
(*   <<"date", d>>       a datetime.date                                   *)
(* Non-finite floats (inf) and float rounding are outside the model.       *)
(* pandas semantics are those of pandas 1.x/2.x (no copy-on-write).        *)
(***************************************************************************)
EXTENDS Integers, Sequences, FiniteSets, TLC

VARIABLES
    raw,             \* the caller's table, the argument of clean_data
    df,              \* df_clean, the working table of the running call
    pc,              \* position of the running clean_data call
    cleaning_log,    \* DataCleaner.cleaning_log
    original_count,  \* local original_count of the running call
    outputs,         \* the tables returned by the calls made so far
    log_starts,      \* for each call, Len(cleaning_log) when it was entered
    shared,          \* df_clean and the caller's table are one object
    sales,           \* SalesForecaster.df: the caller's table, held by reference
    monthly_revenue, \* SalesForecaster.monthly_revenue
    forecast_results,\* SalesForecaster.forecast_results
    fpc,             \* position of the running generate_forecast call
    call,            \* the arguments of the running or last call
    ret,             \* what the last completed call returned
    ncalls,          \* the number of generate_forecast calls begun
    summary,         \* what the last get_forecast_summary call returned
    file,            \* the file handed to load_and_process_data
    loaded,          \* df in load_and_process_data: what load_data returned
    app              \* position of load_and_process_data

cleanVars ==
    <<raw, df, pc, cleaning_log, original_count, outputs, log_starts, shared>>

forecasterVars ==
    <<sales, monthly_revenue, forecast_results, fpc, call, ret, ncalls, summary>>

appVars == <<file, loaded, app>>

vars == <<raw, df, pc, cleaning_log, original_count, outputs, log_starts, shared,
          sales, monthly_revenue, forecast_results, fpc, call, ret, ncalls, summary,
          file, loaded, app>>

----------------------------------------------------------------------------
(* Bounds of the model *)

MaxRows == 2

MaxCalls == 2

----------------------------------------------------------------------------
(* Cells *)

NA == <<"na">>

Num(n) == <<"num", n>>

Txt(s) == <<"txt", s>>

IsNA(c) == c[1] = "na"

IsNum(c) == c[1] = "num"

IsTxt(c) == c[1] = "txt"

ERR == <<"err">>

IsErr(c) == c[1] = "err"

Abs(n) == IF n < 0 THEN -n ELSE n

DigitChars == <<"0", "1", "2", "3", "4", "5", "6", "7", "8", "9">>

RECURSIVE NatToChars(_)
NatToChars(n) ==
    IF n < 10 THEN <<DigitChars[n + 1]>>
    ELSE Append(NatToChars(n \div 10), DigitChars[(n % 10) + 1])

\* Python str() of an int
IntToChars(n) == IF n < 0 THEN <<"-">> \o NatToChars(-n) ELSE NatToChars(n)

IsDigit(ch) == \E k \in 1..10 : DigitChars[k] = ch

DigitVal(ch) == (CHOOSE k \in 1..10 : DigitChars[k] = ch) - 1

RECURSIVE CharsToNat(_)
CharsToNat(s) ==
    IF Len(s) = 0 THEN 0
    ELSE 10 * CharsToNat(SubSeq(s, 1, Len(s) - 1)) + DigitVal(s[Len(s)])

AllDigits(s) == Len(s) > 0 /\ \A k \in 1..Len(s) : IsDigit(s[k])

RECURSIVE Repeat(_, _)
\* Python str * int
Repeat(s, n) == IF n <= 0 THEN <<>> ELSE s \o Repeat(s, n - 1)

\* Series.astype(str), cell by cell
AsTypeStr(c) ==
    CASE IsNum(c) -> Txt(IntToChars(c[2]))
      [] IsTxt(c) -> c
      [] IsNA(c)  -> Txt(<<"n", "a", "n">>)
      [] OTHER    -> c

\* pd.to_numeric(errors='coerce'), cell by cell
ToNumeric(c) ==
    CASE IsNum(c) -> c
      [] IsTxt(c) ->
            IF AllDigits(c[2]) THEN Num(CharsToNat(c[2]))
            ELSE IF Len(c[2]) > 1 /\ c[2][1] = "-" /\ AllDigits(Tail(c[2]))
                 THEN Num(-CharsToNat(Tail(c[2])))
                 ELSE NA
      [] OTHER -> NA

\* pd.to_datetime(errors='coerce'), cell by cell
ToDatetime(c) ==
    CASE c[1] = "dstr" -> <<"ts", c[2]>>
      [] c[1] = "ts"   -> c
      [] c[1] = "date" -> <<"ts", c[2]>>
      [] OTHER         -> NA

\* Series.dt.date, cell by cell
DtDate(c) == IF c[1] = "ts" THEN <<"date", c[2]>> ELSE c

\* elementwise Quantity * Price on an object column
MulCell(q, p) ==
    CASE IsNA(q) \/ IsNA(p)   -> NA
      [] IsNum(q) /\ IsNum(p) -> Num(q[2] * p[2])
      [] IsTxt(q) /\ IsNum(p) -> Txt(Repeat(q[2], p[2]))
      [] IsNum(q) /\ IsTxt(p) -> Txt(Repeat(p[2], q[2]))
      [] OTHER                -> ERR

\* a subtraction that yields NaN for a str operand instead of raising
SubCellLenient(r, e) ==
    CASE IsNA(r) \/ IsNA(e)   -> NA
      [] IsNum(r) /\ IsNum(e) -> Num(r[2] - e[2])
      [] OTHER                -> NA

\* elementwise Revenue - Expected_Revenue; a str operand is a TypeError
SubCell(r, e) ==
    CASE IsNA(r) \/ IsNA(e)   -> NA
      [] IsNum(r) /\ IsNum(e) -> Num(r[2] - e[2])
      [] OTHER                -> ERR

----------------------------------------------------------------------------
(* Tables *)

RECURSIVE SelectRows(_, _)
\* the rows i of t with keep[i], in order (boolean-mask indexing / dropna)
SelectRows(t, keep) ==
    IF Len(t) = 0 THEN <<>>
    ELSE LET rest == SelectRows(SubSeq(t, 1, Len(t) - 1),
                                [i \in 1..(Len(t) - 1) |-> keep[i]])
         IN  IF keep[Len(t)] THEN Append(rest, t[Len(t)]) ELSE rest

DropNA(t, cols) ==
    SelectRows(t, [i \in 1..Len(t) |-> \A c \in cols : ~IsNA(t[i][c])])

CountNA(t, col) == Cardinality({i \in 1..Len(t) : IsNA(t[i][col])})

\* df[col] = cells
SetCol(t, col, cells) ==
    [i \in 1..Len(t) |-> [t[i] EXCEPT ![col] = cells[i]]]

FillNA(t, col, v) ==
    [i \in 1..Len(t) |-> IF IsNA(t[i][col]) THEN [t[i] EXCEPT ![col] = v] ELSE t[i]]

----------------------------------------------------------------------------
(* The stages of DataCleaner.clean_data.  Each stage operator takes the    *)
(* working table and yields [df, log, raised]: the table it returns, the   *)
(* entries it appends to cleaning_log, and whether an exception escapes.   *)

Columns ==
    {"Order_ID", "Order_Date", "Product", "Category", "Quantity", "Price",
     "Revenue", "Region", "Customer_Type"}

Unknown == Txt(<<"U", "n", "k", "n", "o", "w", "n">>)

StageResult(t, l, r) == [df |-> t, log |-> l, raised |-> r]

_standardize_dates(t) ==
    LET parsed  == SetCol(t, "Order_Date", [i \in 1..Len(t) |-> ToDatetime(t[i].Order_Date)])
        invalid == CountNA(parsed, "Order_Date")
        kept    == IF invalid > 0 THEN DropNA(parsed, {"Order_Date"}) ELSE parsed
    IN  StageResult(
            SetCol(kept, "Order_Date", [i \in 1..Len(kept) |-> DtDate(kept[i].Order_Date)]),
            <<<<"Standardizing date formats">>>>
              \o (IF invalid > 0 THEN <<<<"Found invalid dates", invalid>>>> ELSE <<>>),
            FALSE)

_handle_missing_values(t) ==
    LET s1 == DropNA(t, {"Order_ID", "Product", "Category"})
        removed == Len(t) - Len(s1)
        missing_qty == CountNA(s1, "Quantity")
        missing_price == CountNA(s1, "Price")
        s2 == IF missing_qty > 0 THEN DropNA(s1, {"Quantity"}) ELSE s1
        s3 == IF missing_price > 0 THEN DropNA(s2, {"Price"}) ELSE s2
        missing_revenue == CountNA(s3, "Revenue")
        product == [i \in 1..Len(s3) |-> MulCell(s3[i].Quantity, s3[i].Price)]
        mulRaises == missing_revenue > 0 /\ \E i \in 1..Len(s3) : IsErr(product[i])
        s4 == IF missing_revenue > 0 /\ ~mulRaises
              THEN [i \in 1..Len(s3) |->
                      IF IsNA(s3[i].Revenue)
                      THEN [s3[i] EXCEPT !.Revenue = product[i]] ELSE s3[i]]
              ELSE s3
        fillRegion == \E i \in 1..Len(s4) : IsNA(s4[i].Region)
        s5 == IF fillRegion THEN FillNA(s4, "Region", Unknown) ELSE s4
        fillCustomer == \E i \in 1..Len(s5) : IsNA(s5[i].Customer_Type)
        s6 == IF fillCustomer THEN FillNA(s5, "Customer_Type", Unknown) ELSE s5
        logHead ==
            <<<<"Handling missing values">>>>
              \o (IF removed > 0
                  THEN <<<<"Removed orders with missing critical fields", removed>>>>
                  ELSE <<>>)
              \o (IF missing_qty > 0
                  THEN <<<<"Removing orders with missing quantity", missing_qty>>>>
                  ELSE <<>>)
              \o (IF missing_price > 0
                  THEN <<<<"Removing orders with missing price", missing_price>>>>
                  ELSE <<>>)
              \o (IF missing_revenue > 0
                  THEN <<<<"Recalculating missing revenue values", missing_revenue>>>>
                  ELSE <<>>)
        logTail ==
            (IF fillRegion THEN <<<<"Filled missing regions with Unknown">>>> ELSE <<>>)
              \o (IF fillCustomer
                  THEN <<<<"Filled missing customer types with Unknown">>>>
                  ELSE <<>>)
    IN  IF mulRaises THEN StageResult(s3, logHead, TRUE)
        ELSE StageResult(s6, logHead \o logTail, FALSE)

\* keep='last'
DropDuplicatesKeepLast(t) ==
    SelectRows(t, [i \in 1..Len(t) |->
                     ~\E j \in (i + 1)..Len(t) : t[j].Order_ID = t[i].Order_ID])

\* DataFrame.drop_duplicates(subset=['Order_ID'], keep='first'): the key is
\* compared as the Python object it is (1 and "1" differ)
DropDuplicates(t) ==
    SelectRows(t, [i \in 1..Len(t) |->
                     ~\E j \in 1..(i - 1) : t[j].Order_ID = t[i].Order_ID])

\* a stage whose drop_duplicates result is thrown away
_remove_duplicatesUnassigned(t) == StageResult(t, <<>>, FALSE)

_remove_duplicates(t) ==
    LET kept == DropDuplicates(t)
        removed == Len(t) - Len(kept)
    IN  StageResult(
            kept,
            IF removed > 0
            THEN << <<"Removed duplicate orders", removed>>,
                    <<"Reason: Prevents revenue double-counting in reports">> >>
            ELSE <<>>,
            FALSE)

\* Revenue_Diff / Expected_Revenue * 100 as an exact fraction <<"rat", n, d>>
\* with d > 0, or <<"inf">> (x/0, x > 0), or NaN (0/0, or a NaN operand)
DiffPct(diff, expected) ==
    CASE IsNA(diff) \/ IsNA(expected) -> NA
      [] expected[2] = 0 -> IF diff[2] > 0 THEN <<"inf">> ELSE NA
      [] expected[2] > 0 -> <<"rat", diff[2] * 100, expected[2]>>
      [] OTHER           -> <<"rat", -(diff[2] * 100), -expected[2]>>

PctExceedsTen(pct) ==
    CASE pct[1] = "inf" -> TRUE
      [] pct[1] = "rat" -> pct[2] > 10 * pct[3]
      [] OTHER          -> FALSE

\* a comparison that also flags a difference of exactly 1%
PctAtLeast(pct) ==
    CASE pct[1] = "inf" -> TRUE
      [] pct[1] = "rat" -> pct[2] >= pct[3]
      [] OTHER          -> FALSE

\* Revenue_Diff_Pct > 1.0 (False on NaN)
PctExceeds(pct) ==
    CASE pct[1] = "inf" -> TRUE
      [] pct[1] = "rat" -> pct[2] > pct[3]
      [] OTHER          -> FALSE

AbsCell(c) == IF IsNum(c) THEN Num(Abs(c[2])) ELSE c

\* a repair in the reverse direction: Quantity recomputed from Revenue
_fix_revenue_calculationsReverse(t) ==
    LET n == Len(t)
        expected == [i \in 1..n |-> MulCell(t[i].Quantity, t[i].Price)]
        sub == [i \in 1..n |-> SubCell(t[i].Revenue, expected[i])]
        pct == [i \in 1..n |-> DiffPct(AbsCell(sub[i]), expected[i])]
        wrong == {i \in 1..n : PctExceeds(pct[i])}
    IN  IF \E i \in 1..n : IsErr(expected[i]) \/ IsErr(sub[i])
        THEN StageResult(t, <<<<"Validating revenue calculations">>>>, TRUE)
        ELSE StageResult(
                [i \in 1..n |->
                    IF i \in wrong /\ t[i].Price[2] # 0
                    THEN [t[i] EXCEPT !.Quantity = Num(t[i].Revenue[2] \div t[i].Price[2])]
                    ELSE t[i]],
                <<<<"Validating revenue calculations">>>>,
                FALSE)

_fix_revenue_calculations(t) ==
    LET n == Len(t)
        expected == [i \in 1..n |-> MulCell(t[i].Quantity, t[i].Price)]
        mulRaises == \E i \in 1..n : IsErr(expected[i])
        sub == [i \in 1..n |-> SubCell(t[i].Revenue, expected[i])]
        subRaises == \E i \in 1..n : IsErr(sub[i])
        pct == [i \in 1..n |-> DiffPct(AbsCell(sub[i]), expected[i])]
        wrong == {i \in 1..n : PctExceeds(pct[i])}
        incorrect_revenue == Cardinality(wrong)
        head == <<<<"Validating revenue calculations">>>>
    IN  IF mulRaises \/ subRaises THEN StageResult(t, head, TRUE)
        ELSE StageResult(
                [i \in 1..n |->
                    IF i \in wrong THEN [t[i] EXCEPT !.Revenue = expected[i]] ELSE t[i]],
                head \o (IF incorrect_revenue > 0
                         THEN << <<"Found orders with incorrect revenue calculations",
                                   incorrect_revenue>>,
                                 <<"Recalculating revenue as Quantity x Price">> >>
                         ELSE <<>>),
                FALSE)

_validate_data_types(t) ==
    LET t1 == SetCol(t, "Quantity", [i \in 1..Len(t) |-> ToNumeric(t[i].Quantity)])
        t2 == SetCol(t1, "Price", [i \in 1..Len(t1) |-> ToNumeric(t1[i].Price)])
        t3 == SetCol(t2, "Revenue", [i \in 1..Len(t2) |-> ToNumeric(t2[i].Revenue)])
        t4 == SetCol(t3, "Order_ID", [i \in 1..Len(t3) |-> AsTypeStr(t3[i].Order_ID)])
        t5 == SetCol(t4, "Product", [i \in 1..Len(t4) |-> AsTypeStr(t4[i].Product)])
        t6 == SetCol(t5, "Category", [i \in 1..Len(t5) |-> AsTypeStr(t5[i].Category)])
        t7 == SetCol(t6, "Region", [i \in 1..Len(t6) |-> AsTypeStr(t6[i].Region)])
        t8 == SetCol(t7, "Customer_Type", [i \in 1..Len(t7) |-> AsTypeStr(t7[i].Customer_Type)])
    IN  StageResult(t8, <<<<"Validating data types">>>>, FALSE)

RECURSIVE SumOver(_, _)
SumOver(f, S) ==
    IF S = {} THEN 0
    ELSE LET x == CHOOSE y \in S : TRUE IN f[x] + SumOver(f, S \ {x})

\* ((df[col] - mean).abs() > 3 * std).sum() with the sample standard
\* deviation (ddof = 1), NaN skipped; both sides squared and scaled by
\* n^2 (n - 1) so that the comparison stays in the integers
OutlierCount(t, col) ==
    LET idx == {i \in 1..Len(t) : IsNum(t[i][col])}
        n == Cardinality(idx)
        val == [i \in idx |-> t[i][col][2]]
        total == SumOver(val, idx)
        dev == [i \in idx |-> (n * val[i] - total) * (n * val[i] - total)]
        ss == SumOver(dev, idx)
    IN  IF n < 2 THEN 0
        ELSE Cardinality({i \in idx : dev[i] * (n - 1) > 9 * ss})

OutlierLog(t, col) ==
    IF OutlierCount(t, col) > 0
    THEN << <<"Found potential outliers", OutlierCount(t, col), col>>,
            <<"These may be legitimate bulk orders - review manually">> >>
    ELSE <<>>

\* a stage that removes the row of the largest Quantity when it flags one
_handle_outliersRemoving(t) ==
    StageResult(
        IF OutlierCount(t, "Quantity") > 0
        THEN SelectRows(t, [i \in 1..Len(t) |->
                              \E j \in 1..Len(t) : t[j].Quantity[2] > t[i].Quantity[2]])
        ELSE t,
        <<<<"Checking for outliers">>>>
          \o OutlierLog(t, "Quantity") \o OutlierLog(t, "Price") \o OutlierLog(t, "Revenue"),
        FALSE)

_handle_outliers(t) ==
    StageResult(
        t,
        <<<<"Checking for outliers">>>>
          \o OutlierLog(t, "Quantity") \o OutlierLog(t, "Price") \o OutlierLog(t, "Revenue"),
        FALSE)

----------------------------------------------------------------------------
(* The raw tables the pipeline is run on *)

BaseRow ==
    [Order_ID |-> Num(1), Order_Date |-> <<"dstr", 101>>,
     Product |-> Txt(<<"X">>), Category |-> Txt(<<"C">>),
     Quantity |-> Num(10), Price |-> Num(10), Revenue |-> Num(100),
     Region |-> Txt(<<"R">>), Customer_Type |-> Txt(<<"T">>)]

abc == Txt(<<"a", "b", "c">>)

\* <<Quantity, Price, Revenue>>: consistent, at and beyond the 1% tolerance,
\* missing, zero and negative products, text
NumTriples ==
    { <<Num(10), Num(10), Num(100)>>, <<Num(10), Num(10), Num(101)>>,
      <<Num(10), Num(10), Num(102)>>, <<Num(10), Num(10), Num(98)>>,
      <<Num(10), Num(10), NA>>,
      <<NA, Num(10), Num(100)>>, <<Num(10), NA, Num(100)>>, <<NA, NA, Num(100)>>,
      <<Num(0), Num(10), Num(5)>>, <<Num(0), Num(10), Num(0)>>,
      <<Num(-1), Num(10), Num(5)>>, <<Num(-1), Num(10), Num(-10)>>,
      <<abc, Num(10), Num(100)>>, <<Num(10), abc, Num(100)>>,
      <<Num(10), Num(10), abc>>, <<abc, abc, NA>>,
      <<Txt(<<"5">>), Num(10), Num(50)>>,
      <<Num(5), Num(10), Num(100)>> }

RowSamples ==
    { [BaseRow EXCEPT !.Order_ID = id, !.Quantity = t[1], !.Price = t[2], !.Revenue = t[3]] :
        id \in {Num(1), Num(2)}, t \in NumTriples }
    \cup { [BaseRow EXCEPT !.Order_ID = id] : id \in {Txt(<<"1">>), NA} }
    \cup { [BaseRow EXCEPT !.Order_Date = d] : d \in {abc, NA, <<"dstr", 102>>} }
    \cup { [BaseRow EXCEPT !.Product = NA], [BaseRow EXCEPT !.Category = NA],
           [BaseRow EXCEPT !.Region = NA], [BaseRow EXCEPT !.Customer_Type = NA] }

RawTables == UNION { [1..n -> RowSamples] : n \in 0..MaxRows }

----------------------------------------------------------------------------
(* DataCleaner: one object, clean_data called on a raw table and then on   *)
(* the table it returned                                                    *)

CleanInit ==
    /\ raw \in RawTables
    /\ df = <<>>
    /\ pc = "idle"
    /\ cleaning_log = <<>>
    /\ original_count = 0
    /\ outputs = <<>>
    /\ log_starts = <<>>
    /\ shared = FALSE

\* an entry that works on the argument itself (df_clean = df)
EnterNoCopy(arg) ==
    /\ df' = arg
    /\ shared' = TRUE
    /\ original_count' = Len(arg)
    /\ log_starts' = Append(log_starts, Len(cleaning_log))
    /\ cleaning_log' = Append(cleaning_log, <<"Starting data cleaning", Len(arg)>>)
    /\ pc' = "standardize_dates"
    /\ UNCHANGED outputs

\* clean_data, lines 56-59: copy the argument, count it, log the start
Enter(arg) ==
    /\ df' = arg
    /\ shared' = FALSE
    /\ original_count' = Len(arg)
    /\ log_starts' = Append(log_starts, Len(cleaning_log))
    /\ cleaning_log' = Append(cleaning_log, <<"Starting data cleaning", Len(arg)>>)
    /\ pc' = "standardize_dates"
    /\ UNCHANGED outputs

CleanData ==
    /\ pc = "idle"
    /\ Enter(raw)
    /\ UNCHANGED <<raw, forecasterVars, appVars>>

CleanDataAgain ==
    /\ pc = "returned"
    /\ Len(outputs) < MaxCalls
    /\ raw' = outputs[Len(outputs)]
    /\ Enter(outputs[Len(outputs)])
    /\ UNCHANGED <<forecasterVars, appVars>>

\* what line 92 of _standardize_dates leaves in the DataFrame object it was
\* handed: the parsed dates; line 99 writes into the same object only when
\* dropna (line 97) did not replace it
InPlaceDates(t, r) ==
    LET parsed == SetCol(t, "Order_Date",
                         [i \in 1..Len(t) |-> ToDatetime(t[i].Order_Date)])
    IN  IF CountNA(parsed, "Order_Date") > 0 THEN parsed ELSE r.df

\* what lines 208-219 of _fix_revenue_calculations leave in the object they
\* were handed: three columns added, Revenue overwritten
InPlaceRevenue(t, r) ==
    LET expected == [i \in 1..Len(t) |-> MulCell(t[i].Quantity, t[i].Price)]
        diff == [i \in 1..Len(t) |-> AbsCell(SubCell(t[i].Revenue, expected[i]))]
    IN  [i \in 1..Len(t) |->
            [c \in (DOMAIN t[i]) \cup {"Expected_Revenue", "Revenue_Diff",
                                      "Revenue_Diff_Pct"} |->
                CASE c = "Expected_Revenue" -> expected[i]
                  [] c = "Revenue_Diff" -> diff[i]
                  [] c = "Revenue_Diff_Pct" -> DiffPct(diff[i], expected[i])
                  [] OTHER -> r.df[i][c]]]

\* a stage that starts the log afresh instead of appending to it
RunStageFreshLog(here, r, next, in_place, same_object) ==
    /\ pc = here
    /\ cleaning_log' = r.log
    /\ IF r.raised
       THEN pc' = "raised" /\ UNCHANGED <<df, raw, shared>>
       ELSE /\ pc' = next
            /\ df' = r.df
            /\ raw' = IF shared THEN in_place ELSE raw
            /\ shared' = (shared /\ same_object)
    /\ UNCHANGED <<original_count, outputs, log_starts, forecasterVars, appVars>>

\* one stage of clean_data: the table is replaced and the log extended, or
\* the exception leaves clean_data.  in_place is what the stage's column
\* assignments leave in the DataFrame object it was handed, same_object
\* whether it returns that object (dropna, drop_duplicates and
\* drop(columns=...) return new objects); both matter only to a caller that
\* shares the object
RunStage(here, r, next, in_place, same_object) ==
    /\ pc = here
    /\ cleaning_log' = cleaning_log \o r.log
    /\ IF r.raised
       THEN pc' = "raised" /\ UNCHANGED <<df, raw, shared>>
       ELSE /\ pc' = next
            /\ df' = r.df
            /\ raw' = IF shared THEN in_place ELSE raw
            /\ shared' = (shared /\ same_object)
    /\ UNCHANGED <<original_count, outputs, log_starts, forecasterVars, appVars>>

StandardizeDates ==
    LET r == _standardize_dates(df)
    IN  RunStage("standardize_dates", r, "handle_missing_values",
                 InPlaceDates(df, r), Len(r.df) = Len(df))

HandleMissingValues ==
    RunStage("handle_missing_values", _handle_missing_values(df), "remove_duplicates",
             df, FALSE)

RemoveDuplicates ==
    RunStage("remove_duplicates", _remove_duplicates(df), "fix_revenue_calculations",
             df, FALSE)

FixRevenueCalculations ==
    LET r == _fix_revenue_calculations(df)
    IN  RunStage("fix_revenue_calculations", r, "validate_data_types",
                 InPlaceRevenue(df, r), FALSE)

ValidateDataTypes ==
    LET r == _validate_data_types(df)
    IN  RunStage("validate_data_types", r, "handle_outliers", r.df, TRUE)

HandleOutliers ==
    RunStage("handle_outliers", _handle_outliers(df), "finish", df, TRUE)

\* clean_data, lines 68-73
Return ==
    /\ pc = "finish"
    /\ cleaning_log' =
         Append(cleaning_log,
                <<"Cleaning complete", Len(df), original_count - Len(df)>>)
    /\ outputs' = Append(outputs, df)
    /\ pc' = "returned"
    /\ UNCHANGED <<raw, df, original_count, log_starts, shared, forecasterVars, appVars>>

\* Scenario A's rows: two orders that share an Order_ID and differ in the
\* product, an order without Quantity, a further valid order, and an order
\* without Quantity under the shared Order_ID
ScenarioRows ==
    {[BaseRow EXCEPT !.Quantity = Num(2), !.Revenue = Num(20)],
     [BaseRow EXCEPT !.Quantity = Num(2), !.Revenue = Num(20), !.Product = Txt(<<"Y">>)],
     [BaseRow EXCEPT !.Order_ID = Num(2), !.Quantity = NA],
     [BaseRow EXCEPT !.Order_ID = Num(3)],
     [BaseRow EXCEPT !.Quantity = NA, !.Product = Txt(<<"Z">>)]}

ScenarioLen == 3

\* n orders with distinct ids, all of quantity 10 but the last, of quantity q
BulkTable(n, q) ==
    [i \in 1..n |->
        [BaseRow EXCEPT !.Order_ID = Num(i),
                        !.Quantity = IF i = n THEN Num(q) ELSE Num(10),
                        !.Revenue = IF i = n THEN Num(q * 10) ELSE Num(100)]]

BatchTables ==
    [1..ScenarioLen -> ScenarioRows]
    \cup {BulkTable(n, q) : n \in {10, 11, 12}, q \in {10, 100}}

Next ==
    \/ CleanData
    \/ CleanDataAgain
    \/ StandardizeDates
    \/ HandleMissingValues
    \/ RemoveDuplicates
    \/ FixRevenueCalculations
    \/ ValidateDataTypes
    \/ HandleOutliers
    \/ Return

None == [none |-> TRUE]

ForecasterIdle ==
    /\ sales = <<>>
    /\ monthly_revenue = None
    /\ forecast_results = None
    /\ fpc = "idle"
    /\ call = None
    /\ ret = None
    /\ ncalls = 0
    /\ summary = None

\* load_and_process_data is not running
AppIdle ==
    /\ file = None
    /\ loaded = None
    /\ app = "idle"

Init == CleanInit /\ ForecasterIdle /\ AppIdle

\* a DataCleaner run on the tables of three orders and on the bulk tables
BatchInit ==
    /\ raw \in BatchTables
    /\ df = <<>>
    /\ pc = "idle"
    /\ cleaning_log = <<>>
    /\ original_count = 0
    /\ outputs = <<>>
    /\ log_starts = <<>>
    /\ shared = FALSE
    /\ ForecasterIdle
    /\ AppIdle

Spec == Init /\ [][Next]_vars

BatchSpec == BatchInit /\ [][Next]_vars

----------------------------------------------------------------------------
(* Properties of the cleaning pipeline *)

Returned == pc = "returned"

\* the table returned by the call that just returned
Cleaned == outputs[Len(outputs)]

FirstCallReturned == Returned /\ Len(outputs) = 1

\* C1: the table returned by clean_data has pairwise distinct Order_ID
\* values, compared as they appear in the returned table (as text).
C1_OrderIdsDistinct ==
    Returned =>
        \A i, j \in 1..Len(Cleaned) :
            i # j => Cleaned[i].Order_ID # Cleaned[j].Order_ID

\* |Revenue - Quantity*Price| / (Quantity*Price) <= 0.01, or
\* Quantity*Price = 0 and Revenue = 0
RevenueWithinTolerance(row) ==
    /\ IsNum(row.Quantity) /\ IsNum(row.Price) /\ IsNum(row.Revenue)
    /\ LET e == row.Quantity[2] * row.Price[2]
           d == Abs(row.Revenue[2] - e)
       IN  \/ e > 0 /\ 100 * d <= e
           \/ e < 0 /\ 100 * d >= e
           \/ e = 0 /\ row.Revenue[2] = 0

\* C2: every row of the returned table has Revenue within 1% of
\* Quantity*Price, or Quantity*Price = 0 and Revenue = 0; also for raw rows
\* whose Quantity*Price is zero and whose recorded Revenue is not.
C2_RevenueInvariant ==
    Returned => \A i \in 1..Len(Cleaned) : RevenueWithinTolerance(Cleaned[i])

\* a raw row with a zero product and a non-zero revenue came through the
\* first call and was repaired
C2_Witness ==
    /\ FirstCallReturned
    /\ Len(raw) = 1 /\ Len(Cleaned) = 1
    /\ raw[1].Quantity = Num(0) /\ raw[1].Revenue = Num(5)
    /\ Cleaned[1].Revenue = Num(0)

\* C3: every row of the returned table has non-null Order_ID, Product,
\* Category, Quantity, Price and Revenue, although type normalization runs
\* after the missing-value stage.
C3_NoNulls ==
    Returned =>
        \A i \in 1..Len(Cleaned) :
            \A c \in {"Order_ID", "Product", "Category", "Quantity", "Price", "Revenue"} :
                ~IsNA(Cleaned[i][c])

\* a call returned rows although the raw table held text in a numeric
\* column and a missing value
C3_Witness ==
    /\ FirstCallReturned
    /\ Len(Cleaned) >= 1
    /\ \E i \in 1..Len(raw) :
          IsTxt(raw[i].Quantity) \/ IsTxt(raw[i].Price) \/ IsTxt(raw[i].Revenue)

\* C4: clean_data applied to the table clean_data returned yields the same
\* table.
C4_Idempotent ==
    (Returned /\ Len(outputs) >= 2) => outputs[2] = outputs[1]

\* C5: clean_data returns for every table with the nine columns; no
\* exception escapes the pipeline.
C5_NeverRaises == pc # "raised"

Running == pc \notin {"idle", "returned", "raised"}

\* C14: during one clean_data run the log only grows (no earlier entry is
\* changed or removed by a stage or by the return), and the final entry
\* reports retained = rows of the returned table, removed = rows of the
\* argument - retained.
C14_MonotoneLog ==
    [][Running =>
         /\ Len(cleaning_log') >= Len(cleaning_log)
         /\ SubSeq(cleaning_log', 1, Len(cleaning_log)) = cleaning_log
         /\ pc' = "returned" =>
                cleaning_log'[Len(cleaning_log')] =
                    <<"Cleaning complete", Len(outputs'[Len(outputs')]),
                      Len(raw) - Len(outputs'[Len(outputs')])>>]_vars

\* a run over two rows that removed one: its final entry says 1 retained,
\* 1 removed, after the entries of the stages
C14_Witness ==
    /\ FirstCallReturned
    /\ Len(raw) = 2
    /\ Len(Cleaned) = 1
    /\ Len(cleaning_log) >= 8
    /\ cleaning_log[Len(cleaning_log)] = <<"Cleaning complete", 1, 1>>

\* C15: the log a clean_data call returns (the list cleaning_log itself)
\* holds only the entries of that call, its first entry being the call's
\* 'Starting data cleaning' entry, also for a repeated call on the same
\* DataCleaner object.
C15_LogOwnedByRun ==
    Returned =>
        /\ log_starts[Len(outputs)] = 0
        /\ Cardinality({k \in 1..Len(cleaning_log) :
                           cleaning_log[k][1] = "Starting data cleaning"}) = 1

InLog(entry) == \E k \in 1..Len(cleaning_log) : cleaning_log[k] = entry

\* C25: every row of the table returned by clean_data has Quantity >= 0 and
\* Price >= 0.
C25_NonNegative ==
    Returned =>
        \A i \in 1..Len(Cleaned) :
            /\ IsNum(Cleaned[i].Quantity) /\ Cleaned[i].Quantity[2] >= 0
            /\ IsNum(Cleaned[i].Price) /\ Cleaned[i].Price[2] >= 0

\* the logged count of the entries with the given text, 0 when there is none
Logged(text) ==
    LET idx == {k \in 1..Len(cleaning_log) : cleaning_log[k][1] = text}
    IN  SumOver([k \in idx |-> cleaning_log[k][2]], idx)

\* C28: every row count written to the log equals the number of rows the
\* step removed, the count logged for 'missing price' being the number of
\* rows the price sub-step dropped, so that the logged removal counts of
\* the date, critical-field, quantity, price and duplicate steps sum to
\* original - final.
C28_LoggedCountsAddUp ==
    FirstCallReturned =>
        Logged("Found invalid dates")
          + Logged("Removed orders with missing critical fields")
          + Logged("Removing orders with missing quantity")
          + Logged("Removing orders with missing price")
          + Logged("Removed duplicate orders")
        = Len(raw) - Len(Cleaned)

\* the rows of the cleaned table are rows of the raw table in their order,
\* with their Order_Date, Product, Category, Quantity and Price up to type
\* normalization
SameOrder(raw_row, row) ==
    /\ row.Order_Date = DtDate(ToDatetime(raw_row.Order_Date))
    /\ row.Product = AsTypeStr(raw_row.Product)
    /\ row.Category = AsTypeStr(raw_row.Category)
    /\ row.Quantity = ToNumeric(raw_row.Quantity)
    /\ row.Price = ToNumeric(raw_row.Price)

IsSubsequence(t, of) ==
    \E f \in [1..Len(t) -> 1..Len(of)] :
        /\ \A a, b \in 1..Len(t) : a < b => f[a] < f[b]
        /\ \A a \in 1..Len(t) : SameOrder(of[f[a]], t[a])

\* C30: cleaning only filters and repairs: no stage increases the row
\* count, and the rows of the cleaned table are a subsequence of the raw
\* table's rows, each with its Order_Date, Product, Category, Quantity and
\* Price up to type normalization.
C30_FilterAndRepair ==
    [][/\ Running => Len(df') <= Len(df)
       /\ (pc = "finish" /\ pc' = "returned") =>
              IsSubsequence(outputs'[Len(outputs')], raw)]_vars

\* of two raw rows the second came through, its Revenue repaired
C30_Witness ==
    /\ FirstCallReturned
    /\ Len(raw) = 2
    /\ IsNA(raw[1].Price)
    /\ raw[2].Revenue = Num(100) /\ raw[2].Quantity = Num(5)
    /\ Len(Cleaned) = 1
    /\ Cleaned[1].Quantity = Num(5) /\ Cleaned[1].Revenue = Num(50)

\* C23: clean_data has no side effect on its input: from the entry of a
\* call to its return the caller's table keeps its rows, order, columns and
\* values, whichever stages dropped or repaired rows.
C23_InputUntouched == [][pc # "returned" => raw' = raw]_vars

\* a call returned that dropped a row for its date and repaired a Revenue
C23_Witness ==
    /\ FirstCallReturned
    /\ Len(raw) = 2
    /\ Len(Cleaned) = 1
    /\ raw[1].Revenue = Num(102)
    /\ Cleaned[1].Revenue = Num(100)
    /\ raw[2].Order_Date = abc

\* the positions of t that hold the first row of their Order_ID
FirstSeen(t) ==
    {i \in 1..Len(t) : \A j \in 1..(i - 1) : t[j].Order_ID # t[i].Order_ID}

\* C24: duplicate removal is first-seen in the current row order: of the
\* rows that reach the stage (those that survived date standardization and
\* missing-value handling) it keeps, for each Order_ID, exactly the row at
\* the earliest position, in order; a later duplicate therefore survives
\* when the earliest raw occurrence was dropped by an earlier stage.
C24_FirstSeen ==
    [][(pc = "remove_duplicates" /\ pc' = "fix_revenue_calculations") =>
         /\ Len(df') = Cardinality(FirstSeen(df))
         /\ \A k \in 1..Len(df') :
                df'[k] = df[CHOOSE i \in FirstSeen(df) :
                                Cardinality({j \in FirstSeen(df) : j < i}) = k - 1]]_vars

\* three orders under one Order_ID: the first has no Quantity and was
\* dropped by the missing-value stage, the second (product Y) was kept and
\* the third (product X) removed as its duplicate
C24_Witness ==
    /\ FirstCallReturned
    /\ Len(raw) = 3
    /\ raw[1].Order_ID = raw[2].Order_ID /\ raw[2].Order_ID = raw[3].Order_ID
    /\ IsNA(raw[1].Quantity)
    /\ raw[2].Product = Txt(<<"Y">>) /\ raw[3].Product = Txt(<<"X">>)
    /\ Len(Cleaned) = 1
    /\ Cleaned[1].Product = Txt(<<"Y">>)
    /\ InLog(<<"Removed duplicate orders", 1>>)

\* raw has three rows: rows i < j share an Order_ID, row k has another
\* Order_ID and no Quantity; everything else is valid
ScenarioA(i, j, k) ==
    /\ Len(raw) = 3
    /\ {i, j, k} = {1, 2, 3}
    /\ i < j
    /\ raw[i].Order_ID = raw[j].Order_ID
    /\ raw[k].Order_ID # raw[i].Order_ID
    /\ IsNA(raw[k].Quantity)
    /\ ~IsNA(raw[i].Quantity) /\ ~IsNA(raw[j].Quantity)

\* C18: for a raw table in which one Order_ID appears twice and one further
\* row has no Quantity, clean_data returns only the first of the duplicated
\* rows, and the log reports one row removed for missing quantity and one
\* duplicate removed.
C18_ScenarioA ==
    \A i, j, k \in 1..3 :
        (FirstCallReturned /\ ScenarioA(i, j, k)) =>
            /\ Len(Cleaned) = 1
            /\ Cleaned[1].Order_ID = AsTypeStr(raw[i].Order_ID)
            /\ Cleaned[1].Product = raw[i].Product
            /\ InLog(<<"Removing orders with missing quantity", 1>>)
            /\ InLog(<<"Removed duplicate orders", 1>>)
            /\ InLog(<<"Cleaning complete", 1, 2>>)

\* the scenario with the row without Quantity between the two duplicates,
\* the second duplicate naming another product
C18_Witness ==
    /\ FirstCallReturned
    /\ ScenarioA(1, 3, 2)
    /\ raw[1].Product # raw[3].Product
    /\ Len(Cleaned) = 1

\* |Revenue - Quantity*Price| / (Quantity*Price) * 100 > 1.0, multiplied
\* out; a positive difference over a zero product is infinite, a negative
\* product makes the percentage negative
MoreThanOnePercentOff(row) ==
    /\ IsNum(row.Quantity) /\ IsNum(row.Price) /\ IsNum(row.Revenue)
    /\ LET e == row.Quantity[2] * row.Price[2]
           d == Abs(row.Revenue[2] - e)
       IN  \/ e > 0 /\ 100 * d > e
           \/ e = 0 /\ d > 0

\* C19: the revenue-reconciliation stage overwrites Revenue with
\* Quantity*Price for exactly the rows whose percentDiff is strictly greater
\* than 1.0, leaves every other row as it was (also a row at exactly 1.0),
\* and logs as the count of incorrect revenue calculations the number of
\* rows overwritten (no such entry when there is none).
C19_RevenueReconciliation ==
    [][(pc = "fix_revenue_calculations" /\ pc' = "validate_data_types") =>
         LET over == {i \in 1..Len(df) : MoreThanOnePercentOff(df[i])}
             added == SubSeq(cleaning_log', Len(cleaning_log) + 1, Len(cleaning_log'))
             counts == {added[k][2] : k \in {m \in 1..Len(added) :
                            added[m][1] = "Found orders with incorrect revenue calculations"}}
         IN  /\ Len(df') = Len(df)
             /\ \A i \in 1..Len(df) :
                    df'[i] = IF i \in over
                             THEN [df[i] EXCEPT
                                     !.Revenue = Num(df[i].Quantity[2] * df[i].Price[2])]
                             ELSE df[i]
             /\ counts = IF over = {} THEN {} ELSE {Cardinality(over)}]_vars

\* Scenario C next to a row at exactly 1%: Revenue 100 of 5 x 10 became 50
\* and was counted once, Revenue 101 of 10 x 10 stayed
C19_Witness ==
    /\ pc = "validate_data_types"
    /\ Len(df) = 2
    /\ df[1].Quantity = Num(5) /\ df[1].Price = Num(10) /\ df[1].Revenue = Num(50)
    /\ raw[1].Revenue = Num(100)
    /\ df[2].Quantity = Num(10) /\ df[2].Price = Num(10) /\ df[2].Revenue = Num(101)
    /\ InLog(<<"Found orders with incorrect revenue calculations", 1>>)

\* C20: the outlier stage returns the table it received, the same rows in
\* the same order with the same values; it only appends log entries.
C20_OutliersObservational ==
    [][pc = "handle_outliers" =>
         /\ pc' = "finish"
         /\ df' = df
         /\ Len(cleaning_log') > Len(cleaning_log)
         /\ SubSeq(cleaning_log', 1, Len(cleaning_log)) = cleaning_log]_vars

\* the stage flagged an order of 100 units among ten orders of 10 units and
\* handed all eleven on
C20_Witness ==
    /\ pc = "finish"
    /\ Len(df) = 11
    /\ df[11].Quantity = Num(100)
    /\ InLog(<<"Found potential outliers", 1, "Quantity">>)
    /\ InLog(<<"Found potential outliers", 1, "Revenue">>)

----------------------------------------------------------------------------
(* Exact arithmetic for the forecasts: a number is a fraction <<n, d>>     *)
(* with d > 0, in lowest terms                                             *)

RECURSIVE GCD(_, _)
GCD(a, b) == IF b = 0 THEN a ELSE GCD(b, a % b)

Norm(n, d) == LET g == GCD(Abs(n), d) IN <<n \div g, d \div g>>

Rat(n) == <<n, 1>>

RatAdd(x, y) ==
    LET g == GCD(x[2], y[2])
    IN  Norm(x[1] * (y[2] \div g) + y[1] * (x[2] \div g), (x[2] \div g) * y[2])

RatNeg(x) == <<-x[1], x[2]>>

RatSub(x, y) == RatAdd(x, RatNeg(y))

RatLeq(x, y) == RatSub(x, y)[1] <= 0

RatMul(x, y) == Norm(x[1] * y[1], x[2] * y[2])

RatDivInt(x, k) == Norm(x[1], x[2] * k)

\* x / y for y > 0
RatDiv(x, y) == Norm(x[1] * y[2], x[2] * y[1])

RatLess(x, y) == RatSub(x, y)[1] < 0

RECURSIVE RatSum(_)
RatSum(xs) == IF Len(xs) = 0 THEN Rat(0) ELSE RatAdd(xs[1], RatSum(Tail(xs)))

\* np.mean of a non-empty array
RatMean(xs) == RatDivInt(RatSum(xs), Len(xs))

RECURSIVE ISqrt(_)
\* the largest r with r*r <= x
ISqrt(x) ==
    IF x < 2 THEN x
    ELSE LET r == 2 * ISqrt(x \div 4)
         IN  IF (r + 1) * (r + 1) <= x THEN r + 1 ELSE r

\* square roots are taken to one part in SqrtScale
SqrtScale == 10

\* sqrt of a fraction >= 0, rounded down to a multiple of 1/(SqrtScale * d)
RatSqrt(x) ==
    LET scaled == x[1] * x[2] * SqrtScale * SqrtScale
    IN  Norm(ISqrt(scaled), x[2] * SqrtScale)

\* np.std of a non-empty array: the population standard deviation
RatStd(xs) ==
    LET mean == RatMean(xs)
        sq == [i \in 1..Len(xs) |-> RatMul(RatSub(xs[i], mean), RatSub(xs[i], mean))]
    IN  RatSqrt(RatMean(sq))

\* s[:n]
FirstN(s, n) == IF Len(s) <= n THEN s ELSE SubSeq(s, 1, n)

\* Python's s[-n:] for n >= 1
LastN(s, n) == IF Len(s) <= n THEN s ELSE SubSeq(s, Len(s) - n + 1, Len(s))

Min(a, b) == IF a <= b THEN a ELSE b

----------------------------------------------------------------------------
(* SalesForecaster *)

MaxMonths == 12

MaxPeriods == 3

MaxForecastCalls == 2

MonthOf(d) == d \div 100

\* prepare_time_series, lines 19-20: Order_Date becomes a Timestamp and the
\* column Year_Month is added, in the table the forecaster was given
WithYearMonth(t) ==
    [i \in 1..Len(t) |->
        [c \in (DOMAIN t[i]) \cup {"Year_Month"} |->
            CASE c = "Order_Date" -> ToDatetime(t[i].Order_Date)
              [] c = "Year_Month" -> <<"period", MonthOf(ToDatetime(t[i].Order_Date)[2])>>
              [] OTHER            -> t[i][c]]]

RECURSIVE SortedSeq(_)
\* the elements of a set of integers in increasing order
SortedSeq(S) ==
    IF S = {} THEN <<>>
    ELSE LET m == CHOOSE x \in S : \A y \in S : x <= y
         IN  <<m>> \o SortedSeq(S \ {m})

\* groupby('Year_Month')['Revenue'].sum().sort_index()
GroupByMonthSum(t) ==
    LET months == SortedSeq({t[i].Year_Month[2] : i \in 1..Len(t)})
        revenue == [i \in 1..Len(t) |-> t[i].Revenue[2]]
    IN  [index |-> months,
         values |-> [k \in 1..Len(months) |->
                       Rat(SumOver(revenue,
                                   {i \in 1..Len(t) : t[i].Year_Month[2] = months[k]}))]]

\* len() of a Series
SeriesLen(series) == Len(series.values)

Z95 == <<49, 25>>

\* a band that widens with the horizon step
ShiftGrowing(fs, sign, std_dev) ==
    [fs EXCEPT !.values =
        [k \in 1..Len(fs.values) |->
            RatAdd(fs.values[k], RatMul(Rat(sign * k), RatMul(Z95, std_dev)))]]

\* forecast_series -/+ (1.96 * std_dev)
Shift(fs, sign, std_dev) ==
    [fs EXCEPT !.values =
        [k \in 1..Len(fs.values) |->
            RatAdd(fs.values[k], RatMul(Rat(sign), RatMul(Z95, std_dev)))]]

\* a series one value short
FutureSeriesShort(series, values) ==
    [index |-> [k \in 1..(Len(values) - 1) |-> series.index[Len(series.index)] + k],
     values |-> [k \in 1..(Len(values) - 1) |-> values[k]]]

\* pd.date_range(start=last + 1 month, periods=periods, freq='MS') as the
\* index of the values
FutureSeries(series, values) ==
    [index |-> [k \in 1..Len(values) |-> series.index[Len(series.index)] + k],
     values |-> values]

\* a forecast that repeats the mean of the trailing history at every step
PredictionsFlat(historical_values, window, periods, preds) ==
    [k \in 1..periods |-> RatMean(LastN(historical_values, window))]

RECURSIVE Predictions(_, _, _, _)
\* moving_average_forecast, lines 31-41: the loop, predictions so far in preds
Predictions(historical_values, window, periods, preds) ==
    IF Len(preds) >= periods THEN preds
    ELSE LET i == Len(preds)
             last_n ==
                 IF i = 0 THEN LastN(historical_values, window)
                 ELSE LastN(LastN(historical_values, window)
                              \o LastN(preds, Min(i, window)), window)
         IN  Predictions(historical_values, window, periods,
                         Append(preds, RatMean(last_n)))

SuccessResult(method, fs, std_dev) ==
    [method |-> method,
     forecast |-> fs,
     lower_bound |-> Shift(fs, -1, std_dev),
     upper_bound |-> Shift(fs, 1, std_dev)]

ErrorResult(e, msg) == [error |-> e, message |-> msg]

IsError(result) == "error" \in DOMAIN result

\* a moving average that insists on a full window of history
moving_average_forecastFullWindow(series, window, periods) ==
    IF SeriesLen(series) < window
    THEN ErrorResult("Insufficient data", "Need at least a full window of history")
    ELSE SuccessResult("Moving Average",
                       FutureSeries(series,
                                    Predictions(series.values, window, periods, <<>>)),
                       RatStd(LastN(series.values, window)))

\* moving_average_forecast on a non-empty series
moving_average_forecast(series, window, periods) ==
    LET historical_values == series.values
        predictions == Predictions(historical_values, window, periods, <<>>)
    IN  SuccessResult("Moving Average",
                      FutureSeries(series, predictions),
                      RatStd(LastN(historical_values, window)))

MinMonthsSmoothing == 6

MinMonthsArima == 12

TooShortOffByOne(series, needed) == SeriesLen(series) <= needed

\* len(self.monthly_revenue) < 6, resp. < 12
TooShort(series, needed) == SeriesLen(series) < needed

\* what the fitted statsmodels model hands back: forecast(steps) values and
\* the standard deviation of its residuals, or an exception
FitOutcomes(steps) ==
    { [ok |-> FALSE, values |-> <<>>, std |-> Rat(0)] }
    \cup { [ok |-> TRUE,
            values |-> [k \in 1..steps |-> Rat(base + slope * k)],
            std |-> Rat(sd)] :
           base \in {100}, slope \in {-10, 0, 10}, sd \in {0, 5} }

Methods == {"moving_average", "exponential_smoothing", "arima", "bogus"}

DefaultWindow == 3

\* the forecaster's tables: one row per month for 0..MaxMonths months, and
\* tables whose rows are out of order and share months
SalesRow(m, day, v) == [Order_Date |-> <<"date", 100 * m + day>>, Revenue |-> Num(v)]

ScenarioB == <<100, 110, 105, 120, 130, 125>>

Pattern(p, i) ==
    CASE p = "flat"      -> 100
      [] p = "scenarioB" -> ScenarioB[((i - 1) % 6) + 1]
      [] p = "rising"    -> 100 + 10 * i
      [] OTHER           -> 0

Patterns == {"flat", "scenarioB", "rising", "zero"}

\* three months at `a` then three at `b`: the trailing six average (a+b)/2,
\* the trailing three average b
Step(a, b) == [i \in 1..6 |-> SalesRow(i, 1, IF i <= 3 THEN a ELSE b)]

SalesTables ==
    { [i \in 1..n |-> SalesRow(i, 1, Pattern(p, i))] : n \in 0..MaxMonths, p \in Patterns }
    \cup { << SalesRow(2, 5, 50), SalesRow(1, 9, 100), SalesRow(2, 1, 60) >>,
           << SalesRow(3, 1, 30), SalesRow(1, 2, 10), SalesRow(1, 20, 5), SalesRow(2, 7, 20) >> }
    \cup { Step(190, 210), Step(210, 190), Step(189, 211), Step(211, 189) }
    \cup { Step(-100, 40), Step(-40, 40) }

ForecastInit ==
    /\ raw = <<>> /\ df = <<>> /\ pc = "idle" /\ cleaning_log = <<>>
    /\ original_count = 0 /\ outputs = <<>> /\ log_starts = <<>>
    /\ shared = FALSE
    /\ sales \in SalesTables
    /\ monthly_revenue = None
    /\ forecast_results = None
    /\ fpc = "idle"
    /\ call = None
    /\ ret = None
    /\ ncalls = 0
    /\ summary = None
    /\ AppIdle

\* generate_forecast up to the dispatch on the method: line 180,
\* prepare_time_series
GenerateForecast ==
    /\ fpc = "idle"
    /\ ncalls < MaxForecastCalls
    /\ ncalls' = ncalls + 1
    /\ \E method \in Methods, periods \in 1..MaxPeriods :
          call' = [method |-> method, periods |-> periods]
    /\ sales' = WithYearMonth(sales)
    /\ monthly_revenue' = GroupByMonthSum(WithYearMonth(sales))
    /\ fpc' = "dispatch"
    /\ summary' = None
    /\ UNCHANGED <<forecast_results, ret, cleanVars, appVars>>

\* a completion that adds the history to every result, errors included
FinishAlways(result) ==
    LET full == [c \in (DOMAIN result) \cup {"historical_data", "forecast_period_months"} |->
                    CASE c = "historical_data" -> monthly_revenue
                      [] c = "forecast_period_months" -> call.periods
                      [] OTHER -> result[c]]
    IN  /\ forecast_results' = full
        /\ ret' = full
        /\ fpc' = "idle"

\* generate_forecast, lines 194-199
Finish(result) ==
    LET full == IF IsError(result) THEN result
                ELSE [c \in (DOMAIN result) \cup {"historical_data", "forecast_period_months"} |->
                        CASE c = "historical_data" -> monthly_revenue
                          [] c = "forecast_period_months" -> call.periods
                          [] OTHER -> result[c]]
    IN  /\ forecast_results' = full
        /\ ret' = full
        /\ fpc' = "idle"

\* line 183; on an empty series index[-1] (line 43) is an IndexError
MovingAverage ==
    /\ fpc = "dispatch"
    /\ call.method = "moving_average"
    /\ IF SeriesLen(monthly_revenue) = 0
       THEN fpc' = "raised" /\ UNCHANGED <<forecast_results, ret>>
       ELSE Finish(moving_average_forecast(monthly_revenue, DefaultWindow, call.periods))
    /\ UNCHANGED <<sales, monthly_revenue, call, ncalls, summary, cleanVars, appVars>>

\* line 185 and exponential_smoothing_forecast, lines 71-75
ExponentialSmoothing ==
    /\ fpc = "dispatch"
    /\ call.method = "exponential_smoothing"
    /\ IF TooShort(monthly_revenue, MinMonthsSmoothing)
       THEN Finish(ErrorResult("Insufficient data",
                               "Need at least 6 months of historical data"))
       ELSE fpc' = "fit" /\ UNCHANGED <<forecast_results, ret>>
    /\ UNCHANGED <<sales, monthly_revenue, call, ncalls, summary, cleanVars, appVars>>

\* line 187 and arima_forecast, lines 128-132
Arima ==
    /\ fpc = "dispatch"
    /\ call.method = "arima"
    /\ IF TooShort(monthly_revenue, MinMonthsArima)
       THEN Finish(ErrorResult("Insufficient data",
                               "ARIMA requires at least 12 months of historical data"))
       ELSE fpc' = "fit" /\ UNCHANGED <<forecast_results, ret>>
    /\ UNCHANGED <<sales, monthly_revenue, call, ncalls, summary, cleanVars, appVars>>

\* the try blocks, lines 77-122 and 134-177: fit, forecast, bands
Fit ==
    /\ fpc = "fit"
    /\ \E o \in FitOutcomes(call.periods) :
          IF o.ok
          THEN Finish(SuccessResult(
                        IF call.method = "arima" THEN "ARIMA" ELSE "Exponential Smoothing",
                        FutureSeries(monthly_revenue, o.values), o.std))
          ELSE Finish(ErrorResult("fit failed",
                        IF call.method = "arima" THEN "ARIMA forecast failed"
                        ELSE "Exponential smoothing failed"))
    /\ UNCHANGED <<sales, monthly_revenue, call, ncalls, summary, cleanVars, appVars>>

\* lines 188-192: returned before forecast_results is assigned
InvalidMethod ==
    /\ fpc = "dispatch"
    /\ call.method \notin {"moving_average", "exponential_smoothing", "arima"}
    /\ ret' = ErrorResult("Invalid method",
                          "Choose: moving_average, exponential_smoothing, or arima")
    /\ fpc' = "idle"
    /\ UNCHANGED <<sales, monthly_revenue, forecast_results, call, ncalls, summary,
                   cleanVars, appVars>>

HistoryMonths == 6

\* a classification whose thresholds are inclusive
TrendInclusive(pct_change) ==
    IF RatLeq(Rat(5), pct_change) THEN "GROWTH"
    ELSE IF RatLeq(pct_change, Rat(-5)) THEN "DECLINE"
    ELSE "STABLE"

\* line 217
Trend(pct_change) ==
    IF RatLess(Rat(5), pct_change) THEN "GROWTH"
    ELSE IF RatLess(pct_change, Rat(-5)) THEN "DECLINE"
    ELSE "STABLE"

\* a summary that measures the change against the size of the historical
\* average whenever that average is not zero
get_forecast_summaryAnySign(results) ==
    IF results = None \/ IsError(results)
    THEN [error |-> "No valid forecast available"]
    ELSE LET forecast == results.forecast.values
             historical == results.historical_data.values
             avg_monthly_forecast == RatMean(forecast)
             avg_historical == RatMean(LastN(historical, HistoryMonths))
             size == IF RatLess(avg_historical, Rat(0)) THEN RatNeg(avg_historical)
                     ELSE avg_historical
             pct_change ==
                 IF size # Rat(0)
                 THEN RatMul(RatDiv(RatSub(avg_monthly_forecast, avg_historical),
                                    size), Rat(100))
                 ELSE Rat(0)
         IN  [total_forecast_revenue |-> RatSum(forecast),
              avg_monthly_forecast |-> avg_monthly_forecast,
              avg_historical_last_6m |-> avg_historical,
              pct_change |-> pct_change,
              trend |-> Trend(pct_change)]

\* get_forecast_summary, lines 202-226 (the interpretation text left out)
get_forecast_summary(results) ==
    IF results = None \/ IsError(results)
    THEN [error |-> "No valid forecast available"]
    ELSE LET forecast == results.forecast.values
             historical == results.historical_data.values
             avg_monthly_forecast == RatMean(forecast)
             avg_historical == RatMean(LastN(historical, HistoryMonths))
             pct_change ==
                 IF RatLess(Rat(0), avg_historical)
                 THEN RatMul(RatDiv(RatSub(avg_monthly_forecast, avg_historical),
                                    avg_historical), Rat(100))
                 ELSE Rat(0)
         IN  [total_forecast_revenue |-> RatSum(forecast),
              avg_monthly_forecast |-> avg_monthly_forecast,
              avg_historical_last_6m |-> avg_historical,
              pct_change |-> pct_change,
              trend |-> Trend(pct_change)]

\* a call of get_forecast_summary between two forecasts; the summary is the
\* caller's until the next generate_forecast
GetForecastSummary ==
    /\ fpc = "idle"
    /\ summary = None
    /\ summary' = get_forecast_summary(forecast_results)
    /\ UNCHANGED <<sales, monthly_revenue, forecast_results, fpc, call, ret, ncalls,
                   cleanVars, appVars>>

ForecastNext ==
    \/ GetForecastSummary
    \/ GenerateForecast
    \/ MovingAverage
    \/ ExponentialSmoothing
    \/ Arima
    \/ Fit
    \/ InvalidMethod

ForecastSpec == ForecastInit /\ [][ForecastNext]_vars

----------------------------------------------------------------------------
(* moving_average_forecast called directly, with any window and horizon    *)

MaxWindow == 4

\* the tables of at most MaxWindow + 1 rows
ShortSalesTables == {t \in SalesTables : Len(t) <= MaxWindow + 1}

MovingAverageInit ==
    /\ raw = <<>> /\ df = <<>> /\ pc = "idle" /\ cleaning_log = <<>>
    /\ original_count = 0 /\ outputs = <<>> /\ log_starts = <<>>
    /\ shared = FALSE
    /\ sales \in ShortSalesTables
    /\ monthly_revenue = None
    /\ forecast_results = None
    /\ fpc = "idle"
    /\ call = None
    /\ ret = None
    /\ ncalls = 0
    /\ summary = None
    /\ AppIdle

\* moving_average_forecast(window, periods), lines 26-65: the series is
\* prepared when there is none yet (lines 27-28); on an empty series
\* index[-1] (line 43) is an IndexError; the result is returned, not stored
MovingAverageForecast ==
    /\ fpc = "idle"
    /\ ncalls < MaxForecastCalls
    /\ ncalls' = ncalls + 1
    /\ LET prepared == monthly_revenue = None
           series == IF prepared THEN GroupByMonthSum(WithYearMonth(sales))
                     ELSE monthly_revenue
       IN  /\ sales' = IF prepared THEN WithYearMonth(sales) ELSE sales
           /\ monthly_revenue' = series
           /\ \E window \in 1..MaxWindow, periods \in 1..MaxPeriods :
                  /\ call' = [method |-> "moving_average", periods |-> periods,
                              window |-> window]
                  /\ IF SeriesLen(series) = 0
                     THEN fpc' = "raised" /\ ret' = ret
                     ELSE /\ fpc' = "idle"
                          /\ ret' = moving_average_forecast(series, window, periods)
    /\ UNCHANGED <<forecast_results, summary, cleanVars, appVars>>

MovingAverageNext == MovingAverageForecast

MovingAverageSpec == MovingAverageInit /\ [][MovingAverageNext]_vars

----------------------------------------------------------------------------
(* Properties of the forecaster *)

ValidMethods == {"moving_average", "exponential_smoothing", "arima"}

CallReturned == fpc = "idle" /\ call # None

Succeeded == CallReturned /\ ~IsError(ret)

\* C6: with a method tag other than the three, generate_forecast returns
\* 'Invalid method' before any data processing: up to and including the
\* return of such a call (here the forecaster's first), the monthly series
\* has not been computed and the table has not been modified.
C6_InvalidMethodBeforeProcessing ==
    (/\ call # None
     /\ call.method \notin ValidMethods
     /\ ncalls = 1)
    => /\ monthly_revenue = None
       /\ \A i \in 1..Len(sales) : "Year_Month" \notin DOMAIN sales[i]

IsInsufficient(result) == IsError(result) /\ result.error = "Insufficient data"

\* C7: exponential smoothing returns 'Insufficient data', without
\* attempting a fit, exactly when the series has fewer than 6 months, ARIMA
\* exactly when it has fewer than 12; with 6 (12) months the fit is attempted.
C7_InsufficientDataGating ==
    /\ (fpc = "fit" /\ call.method = "exponential_smoothing")
          => SeriesLen(monthly_revenue) >= 6
    /\ (fpc = "fit" /\ call.method = "arima")
          => SeriesLen(monthly_revenue) >= 12
    /\ (CallReturned /\ call.method = "exponential_smoothing")
          => (IsInsufficient(ret) <=> SeriesLen(monthly_revenue) < 6)
    /\ (CallReturned /\ call.method = "arima")
          => (IsInsufficient(ret) <=> SeriesLen(monthly_revenue) < 12)

\* the fit of exponential smoothing is being attempted on exactly 6 months
C7_Witness ==
    /\ fpc = "fit"
    /\ call.method = "exponential_smoothing"
    /\ SeriesLen(monthly_revenue) = 6

\* C8: on success, forecast, lower_bound and upper_bound have exactly
\* `periods` entries and forecast_period_months equals `periods`.
C8_ForecastLength ==
    Succeeded =>
        /\ SeriesLen(ret.forecast) = call.periods
        /\ SeriesLen(ret.lower_bound) = call.periods
        /\ SeriesLen(ret.upper_bound) = call.periods
        /\ ret.forecast_period_months = call.periods

C8_Witness == Succeeded /\ call.periods = 2 /\ SeriesLen(ret.forecast) = 2

\* C9: on success, lower_bound[i] <= forecast[i] <= upper_bound[i] at every
\* point, and the band is symmetric with one half-width for all points.
C9_BandOrdering ==
    Succeeded =>
        \A i \in 1..SeriesLen(ret.forecast) :
            /\ RatLeq(ret.lower_bound.values[i], ret.forecast.values[i])
            /\ RatLeq(ret.forecast.values[i], ret.upper_bound.values[i])
            /\ RatSub(ret.upper_bound.values[i], ret.forecast.values[i])
                 = RatSub(ret.forecast.values[i], ret.lower_bound.values[i])
            /\ RatSub(ret.upper_bound.values[i], ret.forecast.values[i])
                 = RatSub(ret.upper_bound.values[1], ret.forecast.values[1])

\* a moving-average forecast of several points with a band of positive width
C9_Witness ==
    /\ Succeeded
    /\ ret.method = "Moving Average"
    /\ SeriesLen(ret.forecast) >= 2
    /\ ret.lower_bound.values[2] # ret.forecast.values[2]

\* Scenario B: the series [100,110,105,120,130,125], moving average,
\* window 3, horizon 2, returned
ScenarioBForecast ==
    /\ Succeeded
    /\ call.method = "moving_average"
    /\ call.periods = 2
    /\ monthly_revenue.values = [k \in 1..6 |-> Rat(ScenarioB[k])]

\* C10, as claimed: in Scenario B forecast[0] = mean(110,105,120) = 335/3.
C10_AsClaimed == ScenarioBForecast => ret.forecast.values[1] = <<335, 3>>

\* C10, amended: in Scenario B forecast[0] = mean(120,130,125) = 125, the
\* mean of the last three months, and forecast[1] = mean(130,125,125) = 380/3
\* includes forecast[0].
C10_ScenarioB ==
    ScenarioBForecast =>
        /\ ret.forecast.values[1] = <<125, 1>>
        /\ ret.forecast.values[2] = <<380, 3>>

C10_Witness == ScenarioBForecast /\ SeriesLen(ret.forecast) = 2

\* C11: moving_average succeeds on every non-empty monthly series, also on
\* one shorter than the window of 3: the call does not raise and returns a
\* result without 'error' holding `periods` forecast points.
C11_MovingAverageSucceeds ==
    (call # None /\ call.method = "moving_average"
       /\ monthly_revenue # None /\ SeriesLen(monthly_revenue) >= 1)
    => /\ fpc # "raised"
       /\ fpc = "idle" => (~IsError(ret) /\ SeriesLen(ret.forecast) = call.periods)

\* a moving-average forecast of three points from a series of one month,
\* and of two months
C11_Witness ==
    /\ Succeeded
    /\ call.method = "moving_average"
    /\ SeriesLen(monthly_revenue) \in {1, 2}
    /\ SeriesLen(monthly_revenue) < DefaultWindow
    /\ call.periods = 3
    /\ SeriesLen(ret.forecast) = 3

ResultKeys ==
    {"forecast", "lower_bound", "upper_bound", "historical_data",
     "forecast_period_months"}

\* C12: a result of generate_forecast that holds the key 'error' (invalid
\* method, insufficient data, fit failure) holds none of forecast,
\* lower_bound, upper_bound, historical_data, forecast_period_months.
C12_NoPartialErrorResult ==
    (CallReturned /\ IsError(ret)) => (DOMAIN ret) \cap ResultKeys = {}

\* a fit failed on a series already computed, and the error was returned
C12_Witness ==
    /\ CallReturned
    /\ IsError(ret)
    /\ ret.error = "fit failed"
    /\ SeriesLen(monthly_revenue) >= MinMonthsSmoothing

\* C13: generate_forecast never raises: for every table, also one whose
\* monthly series is empty, and every method tag, the call returns.
C13_NeverRaises == fpc # "raised"

\* the summary of a completed forecast
Summarised == summary # None /\ "error" \notin DOMAIN summary

\* the mean of the last min(6, len) historical months of the stored forecast
AvgHistorical ==
    LET h == forecast_results.historical_data.values
    IN  RatMean(SubSeq(h, Len(h) - Min(6, Len(h)) + 1, Len(h)))

AvgForecast == RatMean(forecast_results.forecast.values)

\* C17: for a completed forecast whose trailing historical average is
\* positive, the trend is GROWTH exactly when change = (avgForecast -
\* avgHistorical)/avgHistorical*100 > 5, DECLINE exactly when change < -5,
\* STABLE otherwise (also at exactly +5 and -5); avgHistorical is the mean of
\* the last min(6, len) historical months.  The comparisons are multiplied
\* out: change > 5 iff 100*(avgForecast - avgHistorical) > 5*avgHistorical.
C17_TrendClassification ==
    (Summarised /\ RatLess(Rat(0), AvgHistorical)) =>
        LET gain == RatMul(Rat(100), RatSub(AvgForecast, AvgHistorical))
            five == RatMul(Rat(5), AvgHistorical)
        IN  /\ summary.avg_historical_last_6m = AvgHistorical
            /\ summary.trend = "GROWTH" <=> RatLess(five, gain)
            /\ summary.trend = "DECLINE" <=> RatLess(gain, RatNeg(five))
            /\ summary.trend = "STABLE" <=>
                   (RatLeq(gain, five) /\ RatLeq(RatNeg(five), gain))

\* a forecast exactly 5% above the trailing average was classified STABLE
C17_Witness ==
    /\ Summarised
    /\ RatLess(Rat(0), AvgHistorical)
    /\ summary.pct_change = Rat(5)
    /\ summary.trend = "STABLE"

\* the 'method' of the result each strategy returns on success
StrategyOf(method) ==
    CASE method = "moving_average"        -> "Moving Average"
      [] method = "exponential_smoothing" -> "Exponential Smoothing"
      [] method = "arima"                 -> "ARIMA"
      [] OTHER                            -> "none"

\* C21: each generate_forecast invocation follows Preparing -> exactly one
\* of the three strategies -> Completed or Failed: from the dispatch the
\* call either returns or enters the one fit of the requested strategy, after
\* the fit it returns, and what it returns is an error or the success result
\* of the requested strategy (no retry, no fallback to another strategy).
C21_InvocationStateMachine ==
    [][/\ fpc = "idle" => fpc' \in {"idle", "dispatch"}
       /\ fpc = "dispatch" => fpc' \in {"idle", "fit"}
       /\ fpc = "fit" => fpc' = "idle"
       /\ (fpc # "idle" /\ fpc' = "idle") =>
              (IsError(ret') \/ ret'.method = StrategyOf(call.method))]_vars

\* C22: generate_forecast leaves the table passed to SalesForecaster as the
\* caller had it: no column is added and no Order_Date value is rewritten
\* (the tables hold datetime.date values, as clean_data returns them).
C22_CallerTableUnchanged ==
    \A i \in 1..Len(sales) :
        /\ DOMAIN sales[i] = {"Order_Date", "Revenue"}
        /\ sales[i].Order_Date[1] = "date"

\* the last min(n, Len(s)) elements of s
Trailing(s, n) ==
    LET k == IF n <= Len(s) THEN n ELSE Len(s)
    IN  SubSeq(s, Len(s) - k + 1, Len(s))

\* a direct moving_average_forecast call has returned a forecast
DirectForecast == ret # None /\ ~IsError(ret) /\ "window" \in DOMAIN call

\* C26: for every non-empty history, window >= 1 and horizon, moving-average
\* forecast step i is the mean of the last `window` elements of (history
\* followed by forecasts 0..i-1): for i < window the remaining window - i
\* trailing historical values with the i earlier forecasts, for i >= window
\* only the last `window` forecasts, and all the values when fewer than
\* `window` exist.
C26_StepMean ==
    DirectForecast =>
        LET h == monthly_revenue.values
            f == ret.forecast.values
            w == call.window
        IN  /\ Len(f) = call.periods
            /\ \A i \in 0..(Len(f) - 1) :
                   /\ f[i + 1] = RatMean(Trailing(h \o SubSeq(f, 1, i), w))
                   /\ i >= w => f[i + 1] = RatMean(SubSeq(f, i - w + 1, i))
                   /\ (i < w /\ Len(h) >= w - i) =>
                          f[i + 1] = RatMean(SubSeq(h, Len(h) - (w - i) + 1, Len(h))
                                               \o SubSeq(f, 1, i))
                   /\ Len(h) + i < w => f[i + 1] = RatMean(h \o SubSeq(f, 1, i))

\* history 110, 120, 130 with window 2 and horizon 3: 125, then the mean of
\* 130 and 125, then the mean of the two forecasts
C26_Witness ==
    /\ DirectForecast
    /\ call.window = 2 /\ call.periods = 3
    /\ monthly_revenue.values = <<Rat(110), Rat(120), Rat(130)>>
    /\ ret.forecast.values = <<Rat(125), <<255, 2>>, <<505, 4>>>>

\* C27: get_forecast_summary reflects the most recent generate_forecast
\* call: it returns 'No valid forecast available' before any call and
\* whenever the most recent call returned an error (invalid method,
\* insufficient data, fit failure), also when an earlier call succeeded.
C27_SummaryOfLatestCall ==
    (summary # None /\ (ret = None \/ IsError(ret))) =>
        summary = [error |-> "No valid forecast available"]

\* C29: when the mean of the last min(6, len) historical months is zero or
\* negative, the percent change is 0 and the trend STABLE, whatever the
\* forecast values are.
C29_NonPositiveHistory ==
    (Summarised /\ RatLeq(AvgHistorical, Rat(0))) =>
        /\ summary.pct_change = Rat(0)
        /\ summary.trend = "STABLE"

\* a negative trailing average with a positive forecast was classified STABLE
C29_Witness ==
    /\ Summarised
    /\ RatLess(AvgHistorical, Rat(0))
    /\ RatLess(Rat(0), AvgForecast)
    /\ summary.pct_change = Rat(0)
    /\ summary.trend = "STABLE"

----------------------------------------------------------------------------
(* DataLoader (src/src/data_loader.py) and load_and_process_data            *)
(* (src/app.py): a file is read, its columns validated, and only a table    *)
(* that load_data returned is handed to a new DataCleaner.  A loaded table  *)
(* is [columns, rows], each row a record over the table's columns.          *)

MaxFileRows == 2

REQUIRED_COLUMNS ==
    {"Order_ID", "Order_Date", "Product", "Category", "Quantity", "Price",
     "Revenue", "Region", "Customer_Type"}

\* set(df.columns) - set(REQUIRED_COLUMNS): the difference taken backwards
extra_cols(columns) == columns \ REQUIRED_COLUMNS

\* line 109: set(REQUIRED_COLUMNS) - set(df.columns)
missing_cols(columns) == REQUIRED_COLUMNS \ columns

\* _validate_columns: TRUE when it raises ValueError
_validate_columns(t) == missing_cols(t.columns) # {}

\* load_data: the table, or None after st.error
load_data(f) ==
    IF f.suffix \notin {".csv", ".xlsx", ".xls"} THEN None
    ELSE IF ~f.readable THEN None
    ELSE IF _validate_columns(f.table) THEN None
    ELSE f.table

FileColumns ==
    {REQUIRED_COLUMNS, REQUIRED_COLUMNS \cup {"Notes"}, {"Notes"}, {},
     (REQUIRED_COLUMNS \ {"Revenue"}) \cup {"revenue"}}
    \cup {REQUIRED_COLUMNS \ {c} : c \in REQUIRED_COLUMNS}

FileRows ==
    {BaseRow, [BaseRow EXCEPT !.Order_ID = Num(2), !.Revenue = Num(102)],
     [BaseRow EXCEPT !.Quantity = NA]}

\* a row as it is read from a file with the given columns
ReadRow(row, columns) ==
    [c \in columns |-> IF c \in DOMAIN row THEN row[c] ELSE Txt(<<"n">>)]

Files ==
    {[suffix |-> sfx, readable |-> rd,
      table |-> [columns |-> cols,
                 rows |-> [i \in 1..Len(rows) |-> ReadRow(rows[i], cols)]]] :
        sfx \in {".csv", ".xlsx", ".txt"}, rd \in BOOLEAN, cols \in FileColumns,
        rows \in UNION {[1..n -> FileRows] : n \in 0..MaxFileRows}}

AppInit ==
    /\ raw = <<>> /\ df = <<>> /\ pc = "idle" /\ cleaning_log = <<>>
    /\ original_count = 0 /\ outputs = <<>> /\ log_starts = <<>>
    /\ shared = FALSE
    /\ ForecasterIdle
    /\ file \in Files
    /\ loaded = None
    /\ app = "start"

\* app.py lines 32-35
LoadData ==
    /\ app = "start"
    /\ loaded' = load_data(file)
    /\ app' = "loaded"
    /\ UNCHANGED <<file, cleanVars, forecasterVars>>

\* app.py lines 37-38: return None, None, None
ReturnNothing ==
    /\ app = "loaded"
    /\ loaded = None
    /\ app' = "returned"
    /\ UNCHANGED <<file, loaded, cleanVars, forecasterVars>>

\* app.py lines 41-42: DataCleaner() and the entry of clean_data(df); on a
\* table without the nine columns the stages raise KeyError
AppCleanData ==
    /\ app = "loaded"
    /\ loaded # None
    /\ app' = "cleaning"
    /\ raw' = loaded.rows
    /\ IF REQUIRED_COLUMNS \subseteq loaded.columns
       THEN Enter(loaded.rows)
       ELSE /\ pc' = "raised"
            /\ cleaning_log' = <<<<"Starting data cleaning", Len(loaded.rows)>>>>
            /\ UNCHANGED <<df, original_count, outputs, log_starts, shared>>
    /\ UNCHANGED <<file, loaded, forecasterVars>>

\* app.py lines 44-51: the log is shown, features are engineered (not
\* modelled) and the tables are returned
AppReturn ==
    /\ app = "cleaning"
    /\ pc = "returned"
    /\ app' = "done"
    /\ UNCHANGED <<file, loaded, cleanVars, forecasterVars>>

AppNext ==
    \/ LoadData
    \/ ReturnNothing
    \/ AppCleanData
    \/ StandardizeDates
    \/ HandleMissingValues
    \/ RemoveDuplicates
    \/ FixRevenueCalculations
    \/ ValidateDataTypes
    \/ HandleOutliers
    \/ Return
    \/ AppReturn

AppSpec == AppInit /\ [][AppNext]_vars

\* C16: if the loaded table lacks any of the nine required columns, load_data
\* yields no table and load_and_process_data returns before a DataCleaner is
\* constructed or called: the cleaning pipeline never runs on that table.
C16_ValidationBeforeCleaning ==
    (file # None /\ ~(REQUIRED_COLUMNS \subseteq file.table.columns))
    => /\ app # "start" => loaded = None
       /\ app \in {"start", "loaded", "returned"}
       /\ pc = "idle"
       /\ cleaning_log = <<>>

\* a readable .csv file with rows but without the Revenue column was
\* rejected and load_and_process_data returned
C16_Witness ==
    /\ app = "returned"
    /\ file.suffix = ".csv"
    /\ file.readable
    /\ file.table.columns = REQUIRED_COLUMNS \ {"Revenue"}
    /\ Len(file.table.rows) >= 1
    /\ loaded = None
    /\ pc = "idle"

====
